---- MODULE Spec2Model ----
(***************************************************************************)
(* A model of the training / persistence orchestrator of code2vec's Keras  *)
(* model (src/keras_model.py) and of the derived fields of its Config      *)
(* (src/config.py).                                                        *)
(*                                                                         *)
(* One Code2VecModel instance is alive at a time; the file system under    *)
(* the model path outlives the instances.  Weights are abstract tokens,    *)
(* optimizers are objects with an identity (the order of their creation by *)
(* _create_optimizer); what is followed is which of them the compiled      *)
(* model trains, which the checkpoint object tracks and which received a   *)
(* checkpoint's optimizer state.                                           *)
(* Strings are sequences of one-character strings.                         *)
(***************************************************************************)
EXTENDS Integers, Sequences, FiniteSets, TLC

\* ------------------------------------------------------------------ bounds
MaxNumEpochs == 3
MaxSaveEvery == 2
MaxToKeep == 2
MaxLines == 2
MaxExamples == 6
MaxBatch == 3

\* config.TRAIN_BATCH_SIZE of get_default_config
DefaultBatchSize == 512

None == -1
\* weights are tokens: as initialised, or as some training left them
InitialWeights == 0
TrainedWeights == 1
WeightValues == {InitialWeights, TrainedWeights}

\* ------------------------------------------------------------------ strings
Digits == <<"0", "1", "2", "3", "4", "5", "6", "7", "8", "9">>

RECURSIVE str(_)
\* Python's str(n) of a non-negative int
str(n) == IF n < 10 THEN <<Digits[n + 1]>> ELSE str(n \div 10) \o <<Digits[(n % 10) + 1]>>

IsDigit(c) == \E d \in 1..10 : Digits[d] = c

DigitValue(c) == (CHOOSE d \in 1..10 : Digits[d] = c) - 1

RECURSIVE int(_)
\* Python's int(s) of a decimal string; None stands for the ValueError
int(s) ==
    IF s = <<>> \/ \E i \in 1..Len(s) : ~IsDigit(s[i]) THEN None
    ELSE IF Len(s) = 1 THEN DigitValue(s[1])
    ELSE 10 * int(SubSeq(s, 1, Len(s) - 1)) + DigitValue(s[Len(s)])

RECURSIVE split(_, _)
\* Python's s.split(sep) for a one-character separator
split(s, sep) ==
    IF \A i \in 1..Len(s) : s[i] # sep THEN <<s>>
    ELSE LET i == CHOOSE k \in 1..Len(s) : s[k] = sep /\ \A j \in 1..(k - 1) : s[j] # sep
         IN  <<SubSeq(s, 1, i - 1)>> \o split(SubSeq(s, i + 1, Len(s)), sep)

\* the variant s.split('-')[0]
split_first(s) == split(s, "-")[1]

\* latest_checkpoint.split('-')[-1]
split_last(s) == split(s, "-")[Len(split(s, "-"))]

\* ------------------------------------------------------------------ config.py
\* MODEL_SAVE_PATH = MODEL_LOAD_PATH = "c2v-1/m"
MODEL_PATH == <<"c", "2", "v", "-", "1", "/", "m">>

get_full_model_path(model_path) == model_path \o <<"-", "f", "u", "l", "l">>

get_model_weights_path(model_path) ==
    model_path \o <<"-", "o", "n", "l", "y", "-", "w", "e", "i", "g", "h", "t", "s">>

full_model_load_path == get_full_model_path(MODEL_PATH)

model_weights_load_path == get_model_weights_path(MODEL_PATH)

full_model_save_path == get_full_model_path(MODEL_PATH)

\* the quotient a / b as the pair <<a, b>>
true_div(a, b) == <<a, b>>

\* math.ceil of a non-negative quotient
ceil(q) == IF q[1] % q[2] = 0 THEN q[1] \div q[2] ELSE (q[1] \div q[2]) + 1

\* math.floor of a non-negative quotient
floor(q) == q[1] \div q[2]

\* the variant examples // batch_size
steps_floor(examples, batch_size) == floor(true_div(examples, batch_size))

\* ceil(NUM_..._EXAMPLES / ..._BATCH_SIZE)
steps_per_epoch_of(examples, batch_size) == ceil(true_div(examples, batch_size))

\* ------------------------------------------------------------------ state
VARIABLES
    \* the file system under the model path
    full_dir_exists,        \* os.path.exists("<path>-full")
    checkpoints,            \* the checkpoint numbers the directory's state file lists, oldest first
    checkpoint_files,       \* checkpoint number -> what the checkpoint holds
    latest,                 \* the number the "latest" pointer names, or None
    weights_file,           \* the weights in "<path>-only-weights", or None
    \* Config
    NUM_EPOCHS, SAVE_EVERY_EPOCHS, MAX_TO_KEEP, RELEASE, TRAIN_DATA_PATH_PREFIX,
    NUM_TRAIN_EXAMPLES, TRAIN_BATCH_SIZE, NUM_TEST_EXAMPLES, TEST_BATCH_SIZE,
    \* Code2VecModel
    pc,                     \* where the instance is
    weights,                \* the weights of keras_model, None while keras_model is None
    nr_epochs_trained,
    optimizers,             \* the number of optimizer objects created so far
    restored_optimizer,     \* the optimizer that received a checkpoint's state, or None
    optimizer,              \* keras_model.optimizer, None before compile
    checkpoint,             \* the optimizer _checkpoint tracks, None while _checkpoint is None
    save_checkpoint_manager, \* _save_checkpoint_manager is not None
    \* keras_model.fit and its ModelCheckpointSaverCallback
    epoch, last_saved_epoch, steps_per_epoch, validation_steps,
    \* predict
    predict_data_lines, line_idx, prediction_results, predict_return,
    \* history
    last_op,                \* the operation invoked last
    load_applied,           \* the strategies the last load applied
    saved_in_step,          \* the last step invoked save()
    saved_full,             \* nr_epochs_trained and weights at the last full-checkpoint save
    saved_weights,          \* weights at the last weights-only save
    saved_order,            \* every checkpoint number ever saved, by its last save, oldest first
    dir_saves,              \* number of full-checkpoint saves, counted up to MAX_TO_KEEP + 1
    n0,                     \* nr_epochs_trained when train() started
    hook_calls,             \* on_epoch_end calls since train() started
    unsaved_epochs          \* epochs trained since train() started and since its last save

disk == <<full_dir_exists, checkpoints, checkpoint_files, latest, weights_file>>

config == <<NUM_EPOCHS, SAVE_EVERY_EPOCHS, MAX_TO_KEEP, RELEASE, TRAIN_DATA_PATH_PREFIX,
            NUM_TRAIN_EXAMPLES, TRAIN_BATCH_SIZE, NUM_TEST_EXAMPLES, TEST_BATCH_SIZE>>

model == <<weights, nr_epochs_trained, optimizers, optimizer, restored_optimizer>>

savers == <<checkpoint, save_checkpoint_manager>>

fit == <<epoch, last_saved_epoch, steps_per_epoch, validation_steps>>

predicting == <<predict_data_lines, line_idx, prediction_results, predict_return>>

save_history == <<saved_full, saved_weights>>

retention_history == <<saved_order, dir_saves>>

train_history == <<n0, hook_calls, unsaved_epochs>>

vars == <<disk, config, pc, model, savers, fit, predicting, last_op, load_applied,
          saved_in_step, save_history, retention_history, train_history>>

Range(q) == {q[i] : i \in 1..Len(q)}

Remove(q, n) == SelectSeq(q, LAMBDA x : x # n)

Min(a, b) == IF a < b THEN a ELSE b

\* ------------------------------------------------------------------ Config
train_steps_per_epoch == steps_per_epoch_of(NUM_TRAIN_EXAMPLES, TRAIN_BATCH_SIZE)

test_steps_per_epoch == steps_per_epoch_of(NUM_TEST_EXAMPLES, TEST_BATCH_SIZE)

\* ------------------------------------------------------------------ TensorFlow
\* tf.train.latest_checkpoint(directory): "<directory>/ckpt-<number>", or None
latest_checkpoint ==
    IF ~full_dir_exists \/ latest = None THEN <<>>
    ELSE full_model_load_path \o <<"/", "c", "k", "p", "t", "-">> \o str(latest)

\* the variant that drops the newest beyond k
sweep_newest(q, k) == IF Len(q) > k THEN SubSeq(q, 1, k) ELSE q

RECURSIVE sweep(_, _)
\* CheckpointManager(max_to_keep = k): the oldest go while more than k are tracked
sweep(q, k) == IF Len(q) > k THEN sweep(Tail(q), k) ELSE q

\* ------------------------------------------------------------------ Code2VecModel
NoPrediction == [is_none |-> TRUE, results |-> <<>>]

InstanceInit ==
    /\ pc = "none"
    /\ weights = None
    /\ nr_epochs_trained = 0
    /\ optimizers = 0
    /\ restored_optimizer = None
    /\ optimizer = None
    /\ checkpoint = None
    /\ save_checkpoint_manager = FALSE
    /\ epoch = 0
    /\ last_saved_epoch = 0
    /\ steps_per_epoch = 0
    /\ validation_steps = 0
    /\ predict_data_lines = <<>>
    /\ line_idx = 0
    /\ prediction_results = <<>>
    /\ predict_return = NoPrediction
    /\ last_op = "none"
    /\ load_applied = {}
    /\ saved_in_step = FALSE
    /\ n0 = 0
    /\ hook_calls = 0
    /\ unsaved_epochs = 0

DiskInit ==
    /\ full_dir_exists = FALSE
    /\ checkpoints = <<>>
    /\ checkpoint_files = <<>>
    /\ latest = None
    /\ weights_file = None
    /\ saved_full = [nr |-> None, weights |-> None]
    /\ saved_weights = None
    /\ saved_order = <<>>
    /\ dir_saves = 0

Init ==
    /\ DiskInit
    /\ InstanceInit
    /\ NUM_EPOCHS = 0
    /\ RELEASE = FALSE
    /\ TRAIN_DATA_PATH_PREFIX = ""
    /\ SAVE_EVERY_EPOCHS \in 1..MaxSaveEvery
    /\ MAX_TO_KEEP \in 1..MaxToKeep
    /\ NUM_TRAIN_EXAMPLES = 1000
    /\ TRAIN_BATCH_SIZE = DefaultBatchSize
    /\ NUM_TEST_EXAMPLES = 1000
    /\ TEST_BATCH_SIZE = TRAIN_BATCH_SIZE

\* the locals of fit and predict after Code2VecModel.__init__, or out of scope
fit_none ==
    /\ epoch' = 0
    /\ last_saved_epoch' = 0
    /\ steps_per_epoch' = 0
    /\ validation_steps' = 0
    /\ n0' = 0
    /\ hook_calls' = 0
    /\ unsaved_epochs' = 0

predict_none ==
    /\ predict_data_lines' = <<>>
    /\ line_idx' = 0
    /\ prediction_results' = <<>>
    /\ predict_return' = NoPrediction

\* a program run has ended: no call is in progress
Idle == pc \in {"none", "built", "ValueError", "AttributeError", "AssertionError"}

\* Config.get_default_config(args) and Code2VecModel.__init__
Construct(num_epochs, release, data_path) ==
    /\ Idle
    /\ NUM_EPOCHS' = num_epochs
    /\ RELEASE' = release
    /\ TRAIN_DATA_PATH_PREFIX' = data_path
    /\ UNCHANGED <<SAVE_EVERY_EPOCHS, MAX_TO_KEEP, NUM_TRAIN_EXAMPLES, TRAIN_BATCH_SIZE,
                   NUM_TEST_EXAMPLES, TEST_BATCH_SIZE>>
    /\ pc' = "constructed"
    /\ weights' = None
    /\ nr_epochs_trained' = 0
    /\ optimizers' = 0
    /\ restored_optimizer' = None
    /\ optimizer' = None
    /\ checkpoint' = None
    /\ save_checkpoint_manager' = FALSE
    /\ last_op' = "init"
    /\ load_applied' = {}
    /\ saved_in_step' = FALSE
    /\ fit_none
    /\ predict_none
    /\ UNCHANGED <<disk, save_history>>

\* _create_keras_model, _compile_keras_model()
create_inner_model ==
    /\ pc = "constructed"
    /\ weights' = InitialWeights
    /\ optimizers' = optimizers + 1
    /\ optimizer' = optimizers + 1
    /\ pc' = "built"
    /\ last_op' = "create"
    /\ saved_in_step' = FALSE
    /\ UNCHANGED <<disk, config, nr_epochs_trained, restored_optimizer, savers, fit, predicting,
                   load_applied, save_history, train_history>>

\* _save_inner_model with self.nr_epochs_trained = nr: what save() does to the
\* file system, to _checkpoint and to _save_checkpoint_manager
save_inner_model(nr) ==
    IF RELEASE
    THEN /\ weights_file' = weights
         /\ saved_weights' = weights
         /\ UNCHANGED <<full_dir_exists, checkpoints, checkpoint_files, latest, savers, saved_full>>
    ELSE LET tracked == IF checkpoint = None THEN optimizer ELSE checkpoint
             kept == sweep(Append(Remove(checkpoints, nr), nr), MAX_TO_KEEP)
         IN  /\ save_checkpoint_manager' = TRUE
             /\ checkpoint' = tracked
             /\ checkpoints' = kept
             /\ checkpoint_files' =
                    [c \in Range(kept) |->
                        IF c = nr THEN [weights |-> weights]
                        ELSE checkpoint_files[c]]
             /\ latest' = nr
             /\ full_dir_exists' = TRUE
             /\ saved_full' = [nr |-> nr, weights |-> weights]
             /\ UNCHANGED <<weights_file, saved_weights>>

\* save()
Save ==
    /\ pc = "built"
    /\ save_inner_model(nr_epochs_trained)
    /\ last_op' = "save"
    /\ saved_in_step' = TRUE
    /\ fit_none
    /\ predict_none
    /\ UNCHANGED <<config, pc, model, load_applied>>

\* the variant without the requirement
never_must_use_full_model == FALSE

\* must_use_full_model = self.config.TRAIN_DATA_PATH_PREFIX, as a condition
must_use_full_model == TRAIN_DATA_PATH_PREFIX # ""

\* must_use_full_model or not os.path.exists(self.config.model_weights_load_path)
use_full_model == must_use_full_model \/ weights_file = None

\* _load_inner_model
load_inner_model ==
    /\ pc = "constructed"
    /\ last_op' = "load"
    /\ saved_in_step' = FALSE
    /\ LET first == optimizers + 1
           compiled == optimizers + 1
       IN  IF must_use_full_model /\ ~full_dir_exists
           THEN /\ pc' = "ValueError"
                /\ weights' = InitialWeights
                /\ optimizers' = compiled
                /\ optimizer' = first
                /\ load_applied' = {}
                /\ UNCHANGED <<nr_epochs_trained, restored_optimizer, savers>>
           ELSE IF use_full_model
           THEN LET path == latest_checkpoint
                    restored == path # <<>>
                    number == int(split_last(path))
                IN  /\ checkpoint' = first
                    /\ weights' = IF restored THEN checkpoint_files[latest].weights
                                  ELSE InitialWeights
                    /\ restored_optimizer' = IF restored THEN first ELSE None
                    /\ optimizers' = compiled + 1
                    /\ optimizer' = first + 1
                    /\ load_applied' = IF restored THEN {"full"} ELSE {}
                    /\ pc' = IF ~restored THEN "AttributeError"
                             ELSE IF number = None THEN "ValueError" ELSE "built"
                    /\ nr_epochs_trained' = IF restored /\ number # None THEN number
                                            ELSE nr_epochs_trained
                    /\ UNCHANGED save_checkpoint_manager
           ELSE /\ pc' = "built"
                /\ weights' = weights_file
                /\ optimizers' = compiled
                /\ optimizer' = first
                /\ load_applied' = {"weights"}
                /\ UNCHANGED <<nr_epochs_trained, restored_optimizer, savers>>
    /\ UNCHANGED <<disk, config, fit, predicting, save_history, train_history>>

\* the variant that counts epochs from 1
initial_epoch_one_based == nr_epochs_trained + 1

\* initial_epoch=self.nr_epochs_trained
initial_epoch == nr_epochs_trained

\* train(): ModelCheckpointSaverCallback(self), and keras_model.fit enters its loop
Train ==
    /\ pc = "built"
    /\ TRAIN_DATA_PATH_PREFIX # ""
    /\ last_saved_epoch' = nr_epochs_trained
    /\ epoch' = initial_epoch
    /\ steps_per_epoch' = train_steps_per_epoch
    /\ validation_steps' = test_steps_per_epoch
    /\ pc' = "fit"
    /\ last_op' = "train"
    /\ saved_in_step' = FALSE
    /\ n0' = nr_epochs_trained
    /\ hook_calls' = 0
    /\ unsaved_epochs' = 0
    /\ predict_none
    /\ UNCHANGED <<disk, config, model, savers, load_applied, save_history>>

\* keras_model.fit: one epoch of range(initial_epoch, epochs) trains the model
FitEpoch ==
    /\ pc = "fit"
    /\ epoch < NUM_EPOCHS
    /\ \E w \in WeightValues : weights' = w
    /\ pc' = "epoch_end"
    /\ saved_in_step' = FALSE
    /\ UNCHANGED <<disk, config, nr_epochs_trained, optimizers, optimizer, restored_optimizer,
                   savers, fit, predicting, last_op, load_applied, save_history, train_history>>

\* the variant that counts an epoch twice
incremented_twice(n) == n + 2

\* self.code2vec_model.nr_epochs_trained += 1
incremented(n) == n + 1

\* the variant with a strict comparison
should_save_later(nr_non_saved_epochs) == nr_non_saved_epochs > SAVE_EVERY_EPOCHS

\* nr_non_saved_epochs >= self.code2vec_model.config.SAVE_EVERY_EPOCHS
should_save(nr_non_saved_epochs) == nr_non_saved_epochs >= SAVE_EVERY_EPOCHS

\* the variant that keeps the epoch of the callback's construction
saved_epoch_kept(trained) == last_saved_epoch

\* self.last_saved_epoch = self.code2vec_model.nr_epochs_trained
saved_epoch(trained) == trained

\* ModelCheckpointSaverCallback.on_epoch_end(epoch), then fit's loop goes on
on_epoch_end ==
    /\ pc = "epoch_end"
    /\ hook_calls' = hook_calls + 1
    /\ IF nr_epochs_trained # epoch
       THEN /\ pc' = "AssertionError"
            /\ saved_in_step' = FALSE
            /\ UNCHANGED <<disk, nr_epochs_trained, savers, fit, save_history, unsaved_epochs>>
       ELSE LET trained == incremented(nr_epochs_trained)
                nr_non_saved_epochs == trained - last_saved_epoch
            IN  /\ nr_epochs_trained' = trained
                /\ epoch' = epoch + 1
                /\ pc' = "fit"
                /\ UNCHANGED <<steps_per_epoch, validation_steps>>
                /\ IF should_save(nr_non_saved_epochs)
                   THEN /\ save_inner_model(trained)
                        /\ last_saved_epoch' = saved_epoch(trained)
                        /\ saved_in_step' = TRUE
                        /\ unsaved_epochs' = 0
                   ELSE /\ saved_in_step' = FALSE
                        /\ unsaved_epochs' = unsaved_epochs + 1
                        /\ UNCHANGED <<disk, savers, last_saved_epoch, save_history>>
    /\ UNCHANGED <<config, weights, optimizers, optimizer, restored_optimizer, predicting, last_op,
                   load_applied, n0>>

\* keras_model.fit returns: range(initial_epoch, epochs) is exhausted
FitReturn ==
    /\ pc = "fit"
    /\ epoch >= NUM_EPOCHS
    /\ pc' = "built"
    /\ saved_in_step' = FALSE
    /\ UNCHANGED <<disk, config, model, savers, fit, predicting, last_op, load_applied,
                   save_history, train_history>>

\* the reader's tensors of one input line
ReaderInputTensors(line) ==
    [path_source_token_indices |-> line, path_indices |-> line,
     path_target_token_indices |-> line, context_valid_mask |-> line,
     target_index |-> line, target_string |-> line]

\* _KerasModelInputTensorsFormer.to_model_input_form
to_model_input_form(estimator_mode, input_tensors) ==
    LET inputs == <<input_tensors.path_source_token_indices, input_tensors.path_indices,
                    input_tensors.path_target_token_indices, input_tensors.context_valid_mask>>
    IN  IF estimator_mode = "Predict" THEN [inputs |-> inputs]
        ELSE IF estimator_mode = "Evaluate"
        THEN [inputs |-> inputs,
              targets |-> [y_hat |-> input_tensors.target_index,
                           true_target_word |-> input_tensors.target_string]]
        ELSE [inputs |-> inputs, targets |-> [y_hat |-> input_tensors.target_index]]

\* keras_model.predict: the network's outputs for one line under the current weights
keras_model_predict(row) ==
    [target_word_prediction |-> <<row.inputs, weights>>, code_vectors |-> <<row.inputs, weights>>]

\* predict(predict_data_lines) is entered
Predict(lines) ==
    /\ pc = "built"
    /\ predict_data_lines' = lines
    /\ line_idx' = 0
    /\ prediction_results' = <<>>
    /\ predict_return' = NoPrediction
    /\ pc' = "predict"
    /\ last_op' = "predict"
    /\ saved_in_step' = FALSE
    /\ fit_none
    /\ UNCHANGED <<disk, config, model, savers, load_applied, save_history>>

\* one turn of `for predict_line in predict_data_lines`
PredictLine ==
    /\ pc = "predict"
    /\ line_idx < Len(predict_data_lines)
    /\ prediction_results' =
           <<keras_model_predict(to_model_input_form("Predict",
                 ReaderInputTensors(predict_data_lines[line_idx + 1])))>>
    /\ line_idx' = line_idx + 1
    /\ saved_in_step' = FALSE
    /\ UNCHANGED <<disk, config, pc, model, savers, fit, predict_data_lines, predict_return,
                   last_op, load_applied, save_history, train_history>>

\* the bare `return` after the loop: the results of the lines are dropped
PredictReturn ==
    /\ pc = "predict"
    /\ line_idx = Len(predict_data_lines)
    /\ predict_return' = NoPrediction
    /\ prediction_results' = <<>>
    /\ line_idx' = 0
    /\ pc' = "built"
    /\ saved_in_step' = FALSE
    /\ UNCHANGED <<disk, config, model, savers, fit, predict_data_lines, last_op, load_applied,
                   save_history, train_history>>

\* a program run starts
Run ==
    \E num_epochs \in 1..MaxNumEpochs, release \in BOOLEAN, data_path \in {"", "data"} :
        Construct(num_epochs, release, data_path)

\* a program run that writes full checkpoints starts
RunKeepingCheckpoints ==
    \E num_epochs \in 1..MaxNumEpochs, data_path \in {"", "data"} :
        Construct(num_epochs, FALSE, data_path)

\* the history of the full-checkpoint saves into the directory
record_saves ==
    IF saved_in_step' /\ ~RELEASE
    THEN /\ saved_order' = Append(Remove(saved_order, latest'), latest')
         /\ dir_saves' = Min(dir_saves + 1, MAX_TO_KEEP + 1)
    ELSE UNCHANGED retention_history

no_record == UNCHANGED retention_history

\* the life of the model: construction, load, training, save
Next ==
    \/ Run /\ no_record
    \/ create_inner_model /\ no_record
    \/ load_inner_model /\ no_record
    \/ Save /\ no_record
    \/ Train /\ no_record
    \/ FitEpoch /\ no_record
    \/ on_epoch_end /\ no_record
    \/ FitReturn /\ no_record

Spec == Init /\ [][Next]_vars

\* the same, writing full checkpoints only, with the history of the saves
NextRetention ==
    \/ RunKeepingCheckpoints /\ record_saves
    \/ create_inner_model /\ record_saves
    \/ load_inner_model /\ record_saves
    \/ Save /\ record_saves
    \/ Train /\ record_saves
    \/ FitEpoch /\ record_saves
    \/ on_epoch_end /\ record_saves
    \/ FitReturn /\ record_saves

SpecRetention == Init /\ [][NextRetention]_vars

\* prediction by a model that was built, trained or loaded
NextPredict ==
    \/ Run /\ no_record
    \/ create_inner_model /\ no_record
    \/ Train /\ no_record
    \/ FitEpoch /\ no_record
    \/ on_epoch_end /\ no_record
    \/ FitReturn /\ no_record
    \/ (\E n \in 0..MaxLines : Predict([i \in 1..n |-> i])) /\ no_record
    \/ PredictLine /\ no_record
    \/ PredictReturn /\ no_record

SpecPredict == Init /\ [][NextPredict]_vars

\* the derived step counts, over the sizes of the data sets and of the batches
ExampleCounts == (0..MaxExamples) \cup {1000}

BatchSizes == (1..MaxBatch) \cup {DefaultBatchSize}

InitSteps ==
    /\ DiskInit
    /\ pc = "built"
    /\ weights = InitialWeights
    /\ nr_epochs_trained = 0
    /\ optimizers = 1
    /\ optimizer = 1
    /\ restored_optimizer = None
    /\ checkpoint = None
    /\ save_checkpoint_manager = FALSE
    /\ epoch = 0
    /\ last_saved_epoch = 0
    /\ steps_per_epoch = 0
    /\ validation_steps = 0
    /\ predict_data_lines = <<>>
    /\ line_idx = 0
    /\ prediction_results = <<>>
    /\ predict_return = NoPrediction
    /\ last_op = "create"
    /\ load_applied = {}
    /\ saved_in_step = FALSE
    /\ n0 = 0
    /\ hook_calls = 0
    /\ unsaved_epochs = 0
    /\ NUM_EPOCHS = 0
    /\ RELEASE = FALSE
    /\ TRAIN_DATA_PATH_PREFIX = "data"
    /\ SAVE_EVERY_EPOCHS = 1
    /\ MAX_TO_KEEP = 1
    /\ NUM_TRAIN_EXAMPLES \in ExampleCounts
    /\ TRAIN_BATCH_SIZE \in BatchSizes
    /\ NUM_TEST_EXAMPLES \in ExampleCounts
    /\ TEST_BATCH_SIZE \in BatchSizes

NextSteps ==
    \/ Train /\ no_record
    \/ FitReturn /\ no_record

SpecSteps == InitSteps /\ [][NextSteps]_vars

\* ------------------------------------------------------------------ properties
\* further training is requested: a training data path prefix is configured
TrainingRequested == TRAIN_DATA_PATH_PREFIX # ""

\* "<load path>-only-weights" exists
WeightsFilePresent == weights_file # None

\* load() is to take the full-checkpoint path
FullPathExpected == TrainingRequested \/ ~WeightsFilePresent

\* C1: train() started with nr_epochs_trained = n0 <= NUM_EPOCHS runs exactly
\* NUM_EPOCHS - n0 epochs: every call of the epoch-end hook adds exactly 1 to
\* nr_epochs_trained, and when train() has returned the hook was called
\* NUM_EPOCHS - n0 times and nr_epochs_trained = NUM_EPOCHS.
TrainRunsRemainingEpochs ==
    /\ (last_op = "train" /\ pc \in {"fit", "epoch_end", "built"}) =>
           nr_epochs_trained = n0 + hook_calls
    /\ (last_op = "train" /\ pc = "built" /\ n0 <= NUM_EPOCHS) =>
           /\ hook_calls = NUM_EPOCHS - n0
           /\ nr_epochs_trained = NUM_EPOCHS

\* train() of a model restored at 0 < n0 < NUM_EPOCHS has returned
TrainReturnedAfterRestore ==
    /\ last_op = "train"
    /\ pc = "built"
    /\ load_applied = {"full"}
    /\ 0 < n0
    /\ n0 < NUM_EPOCHS
    /\ hook_calls = NUM_EPOCHS - n0

\* C2: at every epoch boundary the counter is incremented, and save() is
\* invoked exactly when the incremented counter minus the epoch of the last
\* save has reached SAVE_EVERY_EPOCHS; a save writes the state numbered with
\* the incremented counter and leaves an un-persisted count of 0, and without
\* a save the files and the epoch of the last save stay as they are.
EpochEndSavesWhenDue ==
    [][(pc = "epoch_end" /\ pc' = "fit") =>
          /\ nr_epochs_trained' = nr_epochs_trained + 1
          /\ saved_in_step' <=> (nr_epochs_trained' - last_saved_epoch >= SAVE_EVERY_EPOCHS)
          /\ saved_in_step' =>
                 /\ nr_epochs_trained' - last_saved_epoch' = 0
                 /\ IF RELEASE THEN weights_file' = weights ELSE latest' = nr_epochs_trained'
          /\ ~saved_in_step' =>
                 /\ last_saved_epoch' = last_saved_epoch
                 /\ nr_epochs_trained' - last_saved_epoch' < SAVE_EVERY_EPOCHS
                 /\ disk' = disk]_vars

\* the second epoch boundary of a run saves, the first did not
SavedAtSecondBoundary ==
    /\ pc = "fit"
    /\ last_op = "train"
    /\ SAVE_EVERY_EPOCHS = 2
    /\ hook_calls = 2
    /\ saved_in_step
    /\ last_saved_epoch = n0 + 2

\* C3: a load() that follows a save(): on the full-checkpoint path it returns
\* with nr_epochs_trained and the weights of the last full-checkpoint save,
\* on the weights-only path with the weights of the last weights-only save
\* and nr_epochs_trained = 0.
SaveLoadRoundTrip ==
    last_op = "load" =>
        /\ (FullPathExpected /\ saved_full.nr # None) =>
               /\ pc = "built"
               /\ load_applied = {"full"}
               /\ nr_epochs_trained = saved_full.nr
               /\ weights = saved_full.weights
        /\ ~FullPathExpected =>
               /\ pc = "built"
               /\ load_applied = {"weights"}
               /\ weights = saved_weights
               /\ nr_epochs_trained = 0

\* a trained state came back from its full checkpoint
TrainedStateRestored ==
    /\ last_op = "load"
    /\ pc = "built"
    /\ load_applied = {"full"}
    /\ nr_epochs_trained = 2
    /\ weights # InitialWeights
    /\ weights_file # None
    /\ weights_file # weights

\* C4: every load() that does not raise the configuration error has applied
\* exactly one strategy: the full restore when training is requested or the
\* weights-only file is absent, the weights-only load otherwise.
LoadAppliesExactlyOneStrategy ==
    (last_op = "load" /\ ~(pc = "ValueError" /\ TrainingRequested /\ ~full_dir_exists)) =>
        load_applied = IF FullPathExpected THEN {"full"} ELSE {"weights"}

\* C5: load() with training requested and no "<load path>-full" raises the
\* configuration error with nothing restored and nr_epochs_trained as
\* constructed, whether or not the weights-only file exists; with
\* "<load path>-full" present the error is not raised.
ConfigurationErrorWithoutFullCheckpoint ==
    last_op = "load" =>
        /\ (TrainingRequested /\ ~full_dir_exists) =>
               /\ pc = "ValueError"
               /\ load_applied = {}
               /\ weights = InitialWeights
               /\ restored_optimizer = None
               /\ checkpoint = None
               /\ nr_epochs_trained = 0
        /\ full_dir_exists => pc # "ValueError"

\* the configuration error with a weights-only file in place
ConfigurationErrorDespiteWeights ==
    /\ last_op = "load"
    /\ pc = "ValueError"
    /\ weights_file # None

\* C6: after a load() from a full checkpoint the optimizer of the compiled
\* model is the optimizer that received the checkpoint's state, and it is the
\* optimizer the checkpoint object tracks and saves.
RestoredOptimizerReattached ==
    (last_op \in {"load", "train", "save"} /\ load_applied = {"full"}) =>
        /\ optimizer = restored_optimizer
        /\ optimizer = checkpoint

\* C7: predict(lines) returns one result per input line, in input order, each
\* the network's prediction for the predict-mode form of that line.
PredictYieldsResultPerLine ==
    (last_op = "predict" /\ pc = "built") =>
        /\ ~predict_return.is_none
        /\ Len(predict_return.results) = Len(predict_data_lines)
        /\ \A i \in 1..Len(predict_data_lines) :
               predict_return.results[i] =
                   keras_model_predict(to_model_input_form("Predict",
                       ReaderInputTensors(predict_data_lines[i])))

\* C8 as stated: at most MAX_TO_KEEP checkpoints remain, exactly MAX_TO_KEEP
\* once more than MAX_TO_KEEP saves have been made, and the latest pointer
\* names the checkpoint saved last.
RetentionAfterMoreSaves ==
    /\ Len(checkpoints) <= MAX_TO_KEEP
    /\ dir_saves > MAX_TO_KEEP => Len(checkpoints) = MAX_TO_KEEP
    /\ checkpoints # <<>> => latest = checkpoints[Len(checkpoints)]

\* C8, amended: the checkpoints that remain are the min(MAX_TO_KEEP, number of
\* distinct checkpoint numbers saved) numbers saved most recently, in the
\* order of their last save; the latest pointer names the number saved last,
\* and exactly the remaining checkpoints have files.
RetentionOfDistinctCheckpoints ==
    /\ Len(checkpoints) = Min(Len(saved_order), MAX_TO_KEEP)
    /\ checkpoints = SubSeq(saved_order, Len(saved_order) - Len(checkpoints) + 1, Len(saved_order))
    /\ latest = IF saved_order = <<>> THEN None ELSE saved_order[Len(saved_order)]
    /\ latest = saved_full.nr
    /\ DOMAIN checkpoint_files = Range(checkpoints)

\* three distinct checkpoints were saved with two to keep: the oldest is gone
OldestEvicted ==
    /\ MAX_TO_KEEP = 2
    /\ Len(saved_order) = 3
    /\ dir_saves > MAX_TO_KEEP
    /\ saved_order[1] \notin Range(checkpoints)

\* the least s with s * batch_size >= examples
LeastSteps(examples, batch_size) ==
    CHOOSE s \in 0..examples :
        /\ s * batch_size >= examples
        /\ \A t \in 0..(s - 1) : t * batch_size < examples

EpochEndAssertionHolds ==
    /\ pc # "AssertionError"
    /\ pc = "epoch_end" => nr_epochs_trained = epoch

\* the hook is about to run in a second train() call of a restored model
HookCalledAfterRestore ==
    /\ pc = "epoch_end"
    /\ load_applied = {"full"}
    /\ n0 > 0
    /\ epoch = n0

\* train() has returned
TrainReturned == last_op = "train" /\ pc = "built"

\* the state the model is in is the state the last save wrote
FinalStatePersisted ==
    IF RELEASE THEN weights_file = weights
    ELSE /\ latest = nr_epochs_trained
         /\ checkpoint_files[latest].weights = weights

\* an epoch boundary of train() whose hook saves: a full checkpoint carries
\* the counter's value at the save and a number above the run's earlier ones
SavesNumberedIncreasing ==
    (pc = "epoch_end" /\ saved_in_step' /\ ~RELEASE) =>
        /\ latest' = nr_epochs_trained'
        /\ checkpoint_files'[latest'].weights = weights'
        /\ unsaved_epochs < hook_calls => latest' > latest

\* the last epoch boundary of train() saves exactly when SAVE_EVERY_EPOCHS
\* divides the number of epochs run
LastBoundarySavesWhenDivides ==
    (pc = "epoch_end" /\ pc' = "fit" /\ epoch' >= NUM_EPOCHS) =>
        (saved_in_step' <=> hook_calls' % SAVE_EVERY_EPOCHS = 0)

\* C11 as stated: when train() returns after starting at nr_epochs_trained =
\* n0, the epochs trained and captured by no save number
\* (NUM_EPOCHS - n0) mod SAVE_EVERY_EPOCHS; the final state is persisted
\* exactly when SAVE_EVERY_EPOCHS divides the number of epochs run; every
\* checkpoint of the run is numbered with nr_epochs_trained at its save, in
\* strictly increasing order.
UnsavedEpochsAreRemainder ==
    /\ [](TrainReturned =>
            /\ unsaved_epochs = (NUM_EPOCHS - n0) % SAVE_EVERY_EPOCHS
            /\ hook_calls % SAVE_EVERY_EPOCHS = 0 => FinalStatePersisted)
    /\ [][LastBoundarySavesWhenDivides /\ SavesNumberedIncreasing]_vars

\* C11, amended: when train() returns after starting at nr_epochs_trained =
\* n0 < NUM_EPOCHS, so that it ran at least one epoch, the epochs trained and
\* captured by no save number (NUM_EPOCHS - n0) mod SAVE_EVERY_EPOCHS; the
\* final state is persisted exactly when SAVE_EVERY_EPOCHS divides the number
\* of epochs run; every checkpoint of the run is numbered with
\* nr_epochs_trained at its save, in strictly increasing order.
UnsavedEpochsAreRemainderOfRun ==
    /\ []((TrainReturned /\ n0 < NUM_EPOCHS) =>
            /\ unsaved_epochs = (NUM_EPOCHS - n0) % SAVE_EVERY_EPOCHS
            /\ hook_calls % SAVE_EVERY_EPOCHS = 0 => FinalStatePersisted)
    /\ [][LastBoundarySavesWhenDivides /\ SavesNumberedIncreasing]_vars

\* train() returned after three epochs, saved after the second: the third
\* is in no checkpoint
ReturnedWithEpochAfterLastSave ==
    /\ TrainReturned
    /\ ~RELEASE
    /\ SAVE_EVERY_EPOCHS = 2
    /\ n0 < NUM_EPOCHS
    /\ hook_calls = 3
    /\ unsaved_epochs = 1
    /\ latest = nr_epochs_trained - 1
    /\ ~FinalStatePersisted

====
